---------------------------- MODULE Spec2Model ----------------------------
(***************************************************************************)
(* nekowatbot: a Telegram bot that stores named image sets ("WATs") in a   *)
(* TinyDB table and a whitelist in its configuration file.                 *)
(*                                                                         *)
(* The model follows src/nekowatbot/__init__.py (class Nekowat) and        *)
(* src/nekowatbot/handler.py (the message handlers).  Handlers run on the  *)
(* worker threads of a threaded TeleBot, so every handler is a task that   *)
(* is dispatched by the polling thread and then executes one shared-state  *)
(* access per step.                                                        *)
(*                                                                         *)
(* A text is a sequence of one-character strings, so that lower(),         *)
(* strip(), split() and the command parsing are computed, not assumed.     *)
(***************************************************************************)
EXTENDS Integers, Sequences, FiniteSets, TLC

(***************************************************************************)
(* Python str operations used by the handlers                              *)
(***************************************************************************)
UpperLetters == <<"A","B","C","D","E","F","G","H","I","J","K","L","M",
                  "N","O","P","Q","R","S","T","U","V","W","X","Y","Z">>
LowerLetters == <<"a","b","c","d","e","f","g","h","i","j","k","l","m",
                  "n","o","p","q","r","s","t","u","v","w","x","y","z">>
Digits == <<"0","1","2","3","4","5","6","7","8","9">>

Range(s) == {s[i] : i \in DOMAIN s}

IsSpace(c) == c \in {" ", "\t", "\n"}
IsDigit(c) == c \in Range(Digits)
IsWordChar(c) == c \in Range(UpperLetters) \cup Range(LowerLetters)
                         \cup Range(Digits) \cup {"_"}

\* str.lower() on one character
LowerChar(c) ==
    IF c \in Range(UpperLetters)
    THEN LowerLetters[CHOOSE i \in DOMAIN UpperLetters : UpperLetters[i] = c]
    ELSE c

\* str.lower()
Lower(t) == [i \in DOMAIN t |-> LowerChar(t[i])]

RECURSIVE LStrip(_)
LStrip(t) == IF t # <<>> /\ IsSpace(Head(t)) THEN LStrip(Tail(t)) ELSE t

RECURSIVE RStrip(_)
RStrip(t) == IF t # <<>> /\ IsSpace(t[Len(t)])
             THEN RStrip(SubSeq(t, 1, Len(t) - 1)) ELSE t

\* str.strip()
Strip(t) == RStrip(LStrip(t))

\* str.split(sep) for a one-character separator: always at least one part
RECURSIVE SplitAcc(_, _, _)
SplitAcc(t, sep, cur) ==
    IF t = <<>> THEN <<cur>>
    ELSE IF Head(t) = sep THEN <<cur>> \o SplitAcc(Tail(t), sep, <<>>)
    ELSE SplitAcc(Tail(t), sep, Append(cur, Head(t)))

Split(t, sep) == SplitAcc(t, sep, <<>>)

\* str.join
RECURSIVE Join(_, _)
Join(sep, parts) ==
    IF parts = <<>> THEN <<>>
    ELSE IF Len(parts) = 1 THEN parts[1]
    ELSE parts[1] \o <<sep>> \o Join(sep, Tail(parts))

DigitValue(c) == (CHOOSE i \in DOMAIN Digits : Digits[i] = c) - 1

\* int(s) succeeds on an optionally signed, non-empty run of digits
\* (surrounding whitespace is accepted by int())
IsIntBody(t) == t # <<>> /\ \A i \in DOMAIN t : IsDigit(t[i])
IsInt(s) ==
    LET t == Strip(s) IN
    \/ IsIntBody(t)
    \/ t # <<>> /\ Head(t) \in {"-", "+"} /\ IsIntBody(Tail(t))

RECURSIVE NatOf(_)
NatOf(t) == IF t = <<>> THEN 0
            ELSE 10 * NatOf(SubSeq(t, 1, Len(t) - 1)) + DigitValue(t[Len(t)])

ParseInt(s) ==
    LET t == Strip(s) IN
    IF Head(t) = "-" THEN 0 - NatOf(Tail(t))
    ELSE IF Head(t) = "+" THEN NatOf(Tail(t))
    ELSE NatOf(t)

(***************************************************************************)
(* telebot.util: command parsing                                           *)
(***************************************************************************)
\* Python None where a text is expected: no sequence of characters equals it
None == <<"None">>

is_command(t) == t # <<>> /\ Head(t) = "/"

RECURSIVE DropWord(_)
DropWord(t) == IF t # <<>> /\ IsWordChar(Head(t)) THEN DropWord(Tail(t)) ELSE t

RECURSIVE DropMentions(_)
DropMentions(t) ==
    IF t # <<>> /\ Head(t) = "@" THEN DropMentions(DropWord(Tail(t))) ELSE t

\* re.match("/\w*(@\w*)*\s*([\s\S]*)", text).group(2)
extract_arguments(t) ==
    IF is_command(t) THEN LStrip(DropMentions(DropWord(Tail(t)))) ELSE None

RECURSIVE TakeUntil(_, _)
TakeUntil(t, stop) ==
    IF t = <<>> \/ Head(t) \in stop THEN <<>>
    ELSE <<Head(t)>> \o TakeUntil(Tail(t), stop)

\* text.split()[0].split('@')[0][1:]
extract_command(t) ==
    IF is_command(t) THEN Tail(TakeUntil(t, {" ", "\t", "\n", "@"})) ELSE None


(***************************************************************************)
(* Inputs: the texts, senders and photos of the inbound updates            *)
(***************************************************************************)
Cmd(w) == <<"/">> \o w
Sp(a, b) == a \o <<" ">> \o b

w_a == <<"a">>
w_cancel == <<"/","c","a","n","c","e","l">>
w_u == <<"u">>
w_v == <<"v">>

c_start == Cmd(<<"s","t","a","r","t">>)
c_help == Cmd(<<"h","e","l","p">>)
c_me == Cmd(<<"m","e">>)
c_add == Cmd(<<"a","d","d">>)
c_remove == Cmd(<<"r","e","m","o","v","e">>)
c_wat == Cmd(<<"w","a","t">>)
c_setexpressions == Cmd(<<"s","e","t","e","x","p","r","e","s","s","i","o","n","s">>)
c_addwhitelist == Cmd(<<"a","d","d","w","h","i","t","e","l","i","s","t">>)
c_rmwhitelist == Cmd(<<"r","m","w","h","i","t","e","l","i","s","t">>)
c_whitelist == Cmd(<<"w","h","i","t","e","l","i","s","t">>)

\* the PhotoSize file ids of a photo message, smallest first
Photos == { <<"s1", "b1">>, <<"s2", "b2">> }

owner == 1

\* private chats: the chat id is the id of the user
Users == { owner, 2, 3 }

TextMessage(c, t) ==
    [kind |-> "message", chat |-> c, from_user |-> c, content_type |-> "text",
     text |-> t, photo |-> <<>>]
PhotoMessage(c, p) ==
    [kind |-> "message", chat |-> c, from_user |-> c, content_type |-> "photo",
     text |-> None, photo |-> p]
StickerMessage(c) ==
    [kind |-> "message", chat |-> c, from_user |-> c, content_type |-> "sticker",
     text |-> None, photo |-> <<>>]
InlineQuery(u, q) ==
    [kind |-> "inline", chat |-> 0, from_user |-> u, content_type |-> "inline",
     text |-> q, photo |-> <<>>]

\* a message a user writes in a group chat: the chat id is not a user id
GroupChat == 0 - 100
GroupTextMessage(u, t) ==
    [kind |-> "message", chat |-> GroupChat, from_user |-> u, content_type |-> "text",
     text |-> t, photo |-> <<>>]

Chats == Users \cup {GroupChat}

Texts(c, ts) == {TextMessage(c, t) : t \in ts}

(***************************************************************************)
(* State                                                                   *)
(***************************************************************************)
VARIABLES
    use_whitelist,   \* Nekowat.use_whitelist
    whitelist,       \* Nekowat.whitelist: a dict name -> user id
    conf_file,       \* tg.whitelist as stored in the configuration file
    db,              \* the TinyDB table: documents in insertion order
    last_id,         \* the last document id TinyDB handed out
    next_step,       \* per chat: the registered next-step handler
    tasks,           \* per worker thread: the handler invocation it runs
    out              \* what the last step sent through the bot API

vars == <<use_whitelist, whitelist, conf_file, db, last_id, next_step, tasks, out>>

\* the worker threads of the threaded TeleBot
Workers == {"w1", "w2"}

\* most documents ever inserted in a run of the model
MaxDocs == 2

NoStep == [fn |-> "none", name |-> None]
Step(fn, name) == [fn |-> fn, name |-> name]

NoMessage == [kind |-> "none", chat |-> 0, from_user |-> 0, content_type |-> "none",
              text |-> None, photo |-> <<>>]
Idle == [h |-> "idle", m |-> NoMessage, name |-> None, pc |-> "idle",
         reg |-> NoStep, doc |-> 0]
Task(h, m, name) == [h |-> h, m |-> m, name |-> name, pc |-> "run",
                     reg |-> NoStep, doc |-> 0]

EmptyDict == [n \in {} |-> 0]
Values(d) == {d[k] : k \in DOMAIN d}
DictSet(d, k, v) == [x \in DOMAIN d \cup {k} |-> IF x = k THEN v ELSE d[x]]
DictDel(d, k) == [x \in DOMAIN d \ {k} |-> d[x]]

\* TinyDB continues from the largest document id of the table
LastDocId(docs) ==
    IF docs = <<>> THEN 0
    ELSE CHOOSE n \in {docs[i].doc_id : i \in DOMAIN docs} :
            \A i \in DOMAIN docs : docs[i].doc_id <= n

\* the state after init_bot: the whitelist is read from the configuration
\* file and the table from the database file
InitWith(uw, wl, docs) ==
    /\ use_whitelist = uw
    /\ whitelist = wl
    /\ conf_file = wl
    /\ db = docs
    /\ last_id = LastDocId(docs)
    /\ next_step = [c \in Chats |-> NoStep]
    /\ tasks = [w \in Workers |-> Idle]
    /\ out = <<>>

(***************************************************************************)
(* class Nekowat                                                           *)
(***************************************************************************)
\* mutant: whitelisted users pass the owner check
is_owner_or_whitelisted(user_id) == user_id = owner \/ user_id \in Values(whitelist)

is_owner(user_id) == user_id = owner

\* mutant: use_whitelist is not consulted
is_allowed_ignoring_flag(user_id) ==
    user_id = owner \/ user_id \in Values(whitelist)

\* mutant: the whitelist is read from the configuration file
is_allowed_from_file(user_id) ==
    IF ~use_whitelist \/ user_id = owner THEN TRUE
    ELSE user_id \in Values(conf_file)

is_allowed(user_id) ==
    IF ~use_whitelist \/ user_id = owner THEN TRUE
    ELSE user_id \in Values(whitelist)

\* mutant: the file ids are stored biggest first
NewWatReversed(name, file_ids) ==
    [doc_id |-> last_id + 1, name |-> name,
     file_ids |-> [i \in DOMAIN file_ids |-> file_ids[Len(file_ids) + 1 - i]],
     expressions |-> <<>>]

\* the document create_wat inserts
NewWat(name, file_ids) ==
    [doc_id |-> last_id + 1, name |-> name, file_ids |-> file_ids,
     expressions |-> <<>>]

create_wat(name, file_ids) ==
    /\ db' = Append(db, NewWat(name, file_ids))
    /\ last_id' = last_id + 1

get_all_wats == db

\* Query.expressions.any([expression])
MatchesExpression(d, expression) ==
    \E i \in DOMAIN d.expressions : d.expressions[i] = expression

\* mutant: the query tests the name field
get_wats_by_name(expression) == SelectSeq(db, LAMBDA d : d.name = expression)

get_wats_by_expression(expression) ==
    SelectSeq(db, LAMBDA d : MatchesExpression(d, expression))

NamedWats(name) == SelectSeq(db, LAMBDA d : d.name = name)

wat_exists(name) == NamedWats(name) # <<>>

\* db.get: the first matching document; UNCHANGED-safe only when one exists
get_wat(name) == Head(NamedWats(name))

set_wat_expressions(name, expressions) ==
    db' = [i \in DOMAIN db |->
             IF db[i].name = name
             THEN [db[i] EXCEPT !.expressions = expressions]
             ELSE db[i]]

HasDoc(doc_id) == \E i \in DOMAIN db : db[i].doc_id = doc_id

remove_wat(doc_id) == db' = SelectSeq(db, LAMBDA d : d.doc_id # doc_id)


(***************************************************************************)
(* The bot API calls a handler makes                                       *)
(***************************************************************************)
reply_to(m, text, arg) ==
    [api |-> "reply_to", chat |-> m.chat, text |-> text, arg |-> arg]
send_message(chat_id, text, arg) ==
    [api |-> "send_message", chat |-> chat_id, text |-> text, arg |-> arg]
send_photo(chat_id, file_id) ==
    [api |-> "send_photo", chat |-> chat_id, text |-> "photo", arg |-> <<file_id>>]
answer_inline_query(responses) ==
    [api |-> "answer_inline_query", chat |-> 0, text |-> "results", arg |-> responses]

Denied == "You do not have permission to do that"
Cancelled == "Operation cancelled"
SendImage == "Please send the image for this WAT"

(***************************************************************************)
(* Dispatch of an update by the polling thread                             *)
(***************************************************************************)
\* the commands=[...] filters of the message_handler decorators
HandlerOf(command) ==
    CASE command \in {Tail(c_start), Tail(c_help)} -> "handle_start"
      [] command = Tail(c_me) -> "me"
      [] command = Tail(c_add) -> "handle_add"
      [] command = Tail(c_remove) -> "handle_remove"
      [] command = Tail(c_wat) -> "handle_wat"
      [] command = Tail(c_setexpressions) -> "handle_set_expressions"
      [] command = Tail(c_addwhitelist) -> "handle_add_whitelist"
      [] command = Tail(c_rmwhitelist) -> "handle_rm_whitelist"
      [] command = Tail(c_whitelist) -> "handle_show_whitelist"
      [] OTHER -> "none"

\* the handler a message with no pending next step is given to
CommandHandler(m) ==
    IF m.content_type = "text" THEN HandlerOf(extract_command(m.text)) ELSE "none"

HasFreeWorker == \E w \in Workers : tasks[w] = Idle
FreeWorker == CHOOSE w \in Workers : tasks[w] = Idle

\* handler invocations under way that will insert a document
Creating == {w \in Workers : /\ tasks[w].h = "process_add_image"
                             /\ tasks[w].m.content_type = "photo"}

Start(h, m, name) == tasks' = [tasks EXCEPT ![FreeWorker] = Task(h, m, name)]

\* mutant: the next step of the owner's chat is given any chat's message
DispatchNextStep_of_any_chat(m) ==
    /\ HasFreeWorker
    /\ next_step[owner] # NoStep
    /\ m.content_type = "photo" /\ next_step[owner].fn = "process_add_image"
         => last_id + Cardinality(Creating) < MaxDocs
    /\ Start(next_step[owner].fn, m, next_step[owner].name)
    /\ next_step' = [next_step EXCEPT ![owner] = NoStep]
    /\ out' = <<>>
    /\ UNCHANGED <<use_whitelist, whitelist, conf_file, db, last_id>>

\* a message of a chat with a registered next step goes to that step,
\* whatever its text, and the registration is consumed
DispatchNextStep(m) ==
    /\ HasFreeWorker
    /\ next_step[m.chat] # NoStep
    /\ m.content_type = "photo" /\ next_step[m.chat].fn = "process_add_image"
         => last_id + Cardinality(Creating) < MaxDocs
    /\ Start(next_step[m.chat].fn, m, next_step[m.chat].name)
    /\ next_step' = [next_step EXCEPT ![m.chat] = NoStep]
    /\ out' = <<>>
    /\ UNCHANGED <<use_whitelist, whitelist, conf_file, db, last_id>>

DispatchCommand(m) ==
    /\ HasFreeWorker
    /\ next_step[m.chat] = NoStep
    /\ CommandHandler(m) # "none"
    /\ Start(CommandHandler(m), m, None)
    /\ out' = <<>>
    /\ UNCHANGED <<use_whitelist, whitelist, conf_file, db, last_id, next_step>>

\* no next step and no command handler matches: the message is dropped
DispatchDropped(m) ==
    /\ next_step[m.chat] = NoStep
    /\ CommandHandler(m) = "none"
    /\ out' = <<>>
    /\ UNCHANGED <<use_whitelist, whitelist, conf_file, db, last_id, next_step, tasks>>

DispatchInline(q) ==
    /\ HasFreeWorker
    /\ Start("handle_inline", q, None)
    /\ out' = <<>>
    /\ UNCHANGED <<use_whitelist, whitelist, conf_file, db, last_id, next_step>>

(***************************************************************************)
(* Steps of a handler invocation                                           *)
(***************************************************************************)
Running(w, h, pc) == tasks[w].h = h /\ tasks[w].pc = pc

Finish(w) == tasks' = [tasks EXCEPT ![w] = Idle]
Goto(w, pc) == tasks' = [tasks EXCEPT ![w].pc = pc]
\* the handler has sent its prompt and is about to register the next step
ToRegister(w, fn, name) ==
    tasks' = [tasks EXCEPT ![w].pc = "register", ![w].reg = Step(fn, name)]

Reply(w, text) == out' = <<reply_to(tasks[w].m, text, <<>>)>>
Send(w, text) == out' = <<send_message(tasks[w].m.chat, text, <<>>)>>

\* mutant: a chat that already has a next step keeps it
register_next_step_handler_keep_first(w) ==
    /\ tasks[w].pc = "register"
    /\ next_step' = IF next_step[tasks[w].m.chat] = NoStep
                    THEN [next_step EXCEPT ![tasks[w].m.chat] = tasks[w].reg]
                    ELSE next_step
    /\ Finish(w)
    /\ out' = <<>>
    /\ UNCHANGED <<use_whitelist, whitelist, conf_file, db, last_id>>

\* bot.register_next_step_handler(msg, callback): one handler per chat
register_next_step_handler(w) ==
    /\ tasks[w].pc = "register"
    /\ next_step' = [next_step EXCEPT ![tasks[w].m.chat] = tasks[w].reg]
    /\ Finish(w)
    /\ out' = <<>>
    /\ UNCHANGED <<use_whitelist, whitelist, conf_file, db, last_id>>

handle_start(w) ==
    /\ Running(w, "handle_start", "run")
    /\ Reply(w, "usage")
    /\ Finish(w)
    /\ UNCHANGED <<use_whitelist, whitelist, conf_file, db, last_id, next_step>>

me(w) ==
    /\ Running(w, "me", "run")
    /\ out' = <<reply_to(tasks[w].m, "%d", <<tasks[w].m.chat>>)>>
    /\ Finish(w)
    /\ UNCHANGED <<use_whitelist, whitelist, conf_file, db, last_id, next_step>>

handle_add(w) ==
    /\ Running(w, "handle_add", "run")
    /\ LET message == tasks[w].m
           name == extract_arguments(message.text)
       IN  IF ~is_owner(message.chat)
           THEN Reply(w, Denied) /\ Finish(w)
           ELSE IF name = <<>> \/ name = None
           THEN Reply(w, "/add <name>") /\ Finish(w)
           ELSE IF wat_exists(name)
           THEN Reply(w, "There is already a WAT with that name") /\ Finish(w)
           ELSE Send(w, SendImage) /\ ToRegister(w, "process_add_image", name)
    /\ UNCHANGED <<use_whitelist, whitelist, conf_file, db, last_id, next_step>>

\* mutant: any command text ends the add-flow, as '/cancel' does
process_add_image_commands_cancel(w) ==
    /\ Running(w, "process_add_image", "run")
    /\ LET message == tasks[w].m
           name == tasks[w].name
       IN  IF message.content_type = "text" /\ is_command(message.text)
           THEN Send(w, Cancelled) /\ Finish(w) /\ UNCHANGED <<db, last_id>>
           ELSE IF message.content_type # "photo"
           THEN /\ Send(w, SendImage)
                /\ ToRegister(w, "process_add_image", name)
                /\ UNCHANGED <<db, last_id>>
           ELSE /\ create_wat(name, message.photo)
                /\ Send(w, "Added correctly!")
                /\ Finish(w)
    /\ UNCHANGED <<use_whitelist, whitelist, conf_file, next_step>>

\* mutant: the content type is not checked before the record is created
process_add_image_any_content(w) ==
    /\ Running(w, "process_add_image", "run")
    /\ LET message == tasks[w].m
           name == tasks[w].name
       IN  IF message.content_type = "text" /\ message.text = w_cancel
           THEN Send(w, Cancelled) /\ Finish(w) /\ UNCHANGED <<db, last_id>>
           ELSE /\ create_wat(name, message.photo)
                /\ Send(w, "Added correctly!")
                /\ Finish(w)
    /\ UNCHANGED <<use_whitelist, whitelist, conf_file, next_step>>

process_add_image(w) ==
    /\ Running(w, "process_add_image", "run")
    /\ LET message == tasks[w].m
           name == tasks[w].name
       IN  IF message.content_type = "text" /\ message.text = w_cancel
           THEN Send(w, Cancelled) /\ Finish(w) /\ UNCHANGED <<db, last_id>>
           ELSE IF message.content_type # "photo"
           THEN /\ Send(w, SendImage)
                /\ ToRegister(w, "process_add_image", name)
                /\ UNCHANGED <<db, last_id>>
           ELSE /\ create_wat(name, message.photo)
                /\ Send(w, "Added correctly!")
                /\ Finish(w)
    /\ UNCHANGED <<use_whitelist, whitelist, conf_file, next_step>>

\* the reply keyboard: one button per WAT name, then /cancel
Markup(wats) == [i \in DOMAIN wats |-> wats[i].name] \o <<w_cancel>>

\* mutant: /remove starts the remove-flow in any chat
handle_remove_unchecked(w) ==
    /\ Running(w, "handle_remove", "run")
    /\ LET message == tasks[w].m
       IN  /\ out' = <<send_message(message.chat, "Choose a WAT to delete",
                                    Markup(get_all_wats))>>
           /\ ToRegister(w, "process_remove_wat", None)
    /\ UNCHANGED <<use_whitelist, whitelist, conf_file, db, last_id, next_step>>

handle_remove(w) ==
    /\ Running(w, "handle_remove", "run")
    /\ LET message == tasks[w].m
       IN  IF ~is_owner(message.chat)
           THEN Reply(w, Denied) /\ Finish(w)
           ELSE /\ out' = <<send_message(message.chat, "Choose a WAT to delete",
                                         Markup(get_all_wats))>>
                /\ ToRegister(w, "process_remove_wat", None)
    /\ UNCHANGED <<use_whitelist, whitelist, conf_file, db, last_id, next_step>>

process_remove_wat(w) ==
    /\ Running(w, "process_remove_wat", "run")
    /\ LET message == tasks[w].m
           name == message.text
       IN  IF message.content_type # "text"
           THEN /\ Send(w, "You need to send a bot name")
                /\ ToRegister(w, "process_remove_wat", None)
           ELSE IF message.text = w_cancel
           THEN Send(w, Cancelled) /\ Finish(w)
           ELSE IF ~wat_exists(name)
           THEN /\ Send(w, "No WAT found with that name")
                /\ ToRegister(w, "process_remove_wat", None)
           ELSE /\ tasks' = [tasks EXCEPT ![w].pc = "remove",
                                          ![w].doc = get_wat(name).doc_id]
                /\ out' = <<>>
    /\ UNCHANGED <<use_whitelist, whitelist, conf_file, db, last_id, next_step>>

\* result = nekowat.remove_wat(wat.doc_id) and the message that follows.
\* Removing a document id that is no longer in the table raises in TinyDB
\* (the handler dies without a message) or yields a falsy result.
process_remove_wat_remove(w) ==
    /\ Running(w, "process_remove_wat", "remove")
    /\ LET message == tasks[w].m
           name == message.text
       IN  IF HasDoc(tasks[w].doc)
           THEN /\ remove_wat(tasks[w].doc)
                /\ out' = <<send_message(message.chat, "Removed WAT %s", <<name>>)>>
           ELSE /\ db' = db
                /\ \/ out' = <<>>
                   \/ out' = <<send_message(message.chat,
                                            "Failed to remove WAT WAT %s", <<name>>)>>
    /\ Finish(w)
    /\ UNCHANGED <<use_whitelist, whitelist, conf_file, last_id, next_step>>

\* random.choice(wats), then the biggest file of the chosen WAT
SendRandomWat(w, wats) ==
    IF wats = <<>>
    THEN Reply(w, "Sorry, I have no WATs that match that")
    ELSE \E i \in DOMAIN wats :
            out' = <<send_photo(tasks[w].m.chat,
                                wats[i].file_ids[Len(wats[i].file_ids)])>>

\* mutant: the sender is not checked
handle_wat_unchecked(w) ==
    /\ Running(w, "handle_wat", "run")
    /\ LET message == tasks[w].m
           expression == Lower(extract_arguments(message.text))
       IN  IF expression = <<>>
           THEN SendRandomWat(w, get_all_wats) /\ Finish(w)
           ELSE IF get_wats_by_expression(expression) = <<>>
           THEN out' = <<>> /\ Goto(w, "all")
           ELSE SendRandomWat(w, get_wats_by_expression(expression)) /\ Finish(w)
    /\ UNCHANGED <<use_whitelist, whitelist, conf_file, db, last_id, next_step>>

handle_wat(w) ==
    /\ Running(w, "handle_wat", "run")
    /\ LET message == tasks[w].m
           expression == Lower(extract_arguments(message.text))
       IN  IF ~is_allowed(message.from_user)
           THEN out' = <<>> /\ Finish(w)
           ELSE IF expression = <<>>
           THEN SendRandomWat(w, get_all_wats) /\ Finish(w)
           ELSE IF get_wats_by_expression(expression) = <<>>
           THEN out' = <<>> /\ Goto(w, "all")
           ELSE SendRandomWat(w, get_wats_by_expression(expression)) /\ Finish(w)
    /\ UNCHANGED <<use_whitelist, whitelist, conf_file, db, last_id, next_step>>

\* no WAT matched the expression: "Default to all WATs"
handle_wat_all(w) ==
    /\ Running(w, "handle_wat", "all")
    /\ SendRandomWat(w, get_all_wats)
    /\ Finish(w)
    /\ UNCHANGED <<use_whitelist, whitelist, conf_file, db, last_id, next_step>>

handle_set_expressions(w) ==
    /\ Running(w, "handle_set_expressions", "run")
    /\ LET message == tasks[w].m
       IN  IF ~is_owner(message.chat)
           THEN Reply(w, Denied) /\ Finish(w)
           ELSE /\ out' = <<send_message(message.chat, "Choose a WAT to modify",
                                         Markup(get_all_wats))>>
                /\ ToRegister(w, "process_get_expressions", None)
    /\ UNCHANGED <<use_whitelist, whitelist, conf_file, db, last_id, next_step>>

process_get_expressions(w) ==
    /\ Running(w, "process_get_expressions", "run")
    /\ LET message == tasks[w].m
           name == message.text
       IN  IF message.content_type # "text"
           THEN /\ Send(w, "You need to send a WAT name")
                /\ ToRegister(w, "process_get_expressions", None)
           ELSE IF message.text = w_cancel
           THEN Send(w, Cancelled) /\ Finish(w)
           ELSE IF ~wat_exists(name)
           THEN /\ Send(w, "No WAT found with that name")
                /\ ToRegister(w, "process_get_expressions", None)
           ELSE /\ out' = <<send_message(message.chat, "Expressions of %s", <<name>>),
                            reply_to(message, "expressions",
                                     Join(",", get_wat(name).expressions)),
                            send_message(message.chat,
                                "Send a comma separated list of expressions", <<>>)>>
                /\ ToRegister(w, "process_set_expressions", name)
    /\ UNCHANGED <<use_whitelist, whitelist, conf_file, db, last_id, next_step>>

\* [e.lower().strip() for e in message.text.split(',')]
ParseExpressions(text) ==
    LET parts == Split(text, ",") IN [i \in DOMAIN parts |-> Strip(Lower(parts[i]))]

\* mutant: '/cancel' is not recognised and is stored as an expression
process_set_expressions_no_cancel(w) ==
    /\ Running(w, "process_set_expressions", "run")
    /\ LET message == tasks[w].m
           name == tasks[w].name
       IN  IF message.content_type # "text"
           THEN /\ Send(w, "You need to send a comma separated list of expressions")
                /\ ToRegister(w, "process_set_expressions", name)
                /\ db' = db
           ELSE /\ set_wat_expressions(name, ParseExpressions(message.text))
                /\ Send(w, "Expressions updated")
                /\ Finish(w)
    /\ UNCHANGED <<use_whitelist, whitelist, conf_file, last_id, next_step>>

process_set_expressions(w) ==
    /\ Running(w, "process_set_expressions", "run")
    /\ LET message == tasks[w].m
           name == tasks[w].name
       IN  IF message.content_type # "text"
           THEN /\ Send(w, "You need to send a comma separated list of expressions")
                /\ ToRegister(w, "process_set_expressions", name)
                /\ db' = db
           ELSE IF message.text = w_cancel
           THEN Send(w, Cancelled) /\ Finish(w) /\ db' = db
           ELSE /\ set_wat_expressions(name, ParseExpressions(message.text))
                /\ Send(w, "Expressions updated")
                /\ Finish(w)
    /\ UNCHANGED <<use_whitelist, whitelist, conf_file, last_id, next_step>>

\* name = args[0]; user_id = int(args[1])
WhitelistArgs(text) == Split(extract_arguments(text), " ")

handle_add_whitelist(w) ==
    /\ Running(w, "handle_add_whitelist", "run")
    /\ LET message == tasks[w].m
           args == WhitelistArgs(message.text)
       IN  IF ~is_owner(message.chat)
           THEN Reply(w, Denied) /\ Finish(w)
           ELSE IF Len(args) # 2
           THEN Reply(w, "/addwhitelist <name> <id>") /\ Finish(w)
           ELSE IF ~IsInt(args[2])
           THEN Reply(w, "/addwhitelist <name> <id>") /\ Finish(w)
           \* add_whitelist: if name in self.whitelist.keys(): return False
           ELSE IF args[1] \in DOMAIN whitelist
           THEN Reply(w, "Failed to add user to whitelist") /\ Finish(w)
           ELSE out' = <<>> /\ Goto(w, "set")
    /\ UNCHANGED <<use_whitelist, whitelist, conf_file, db, last_id, next_step>>

\* add_whitelist: self.whitelist[name] = user_id
add_whitelist_set(w) ==
    /\ Running(w, "handle_add_whitelist", "set")
    /\ LET args == WhitelistArgs(tasks[w].m.text)
       IN  whitelist' = DictSet(whitelist, args[1], ParseInt(args[2]))
    /\ out' = <<>>
    /\ Goto(w, "dump")
    /\ UNCHANGED <<use_whitelist, conf_file, db, last_id, next_step>>

\* mutant: the configuration file is not rewritten
add_whitelist_dump_skipped(w) ==
    /\ Running(w, "handle_add_whitelist", "dump")
    /\ conf_file' = conf_file
    /\ Reply(w, "User added to whitelist!")
    /\ Finish(w)
    /\ UNCHANGED <<use_whitelist, whitelist, db, last_id, next_step>>

\* add_whitelist: json.dump(self._conf, f); return True
add_whitelist_dump(w) ==
    /\ Running(w, "handle_add_whitelist", "dump")
    /\ conf_file' = whitelist
    /\ Reply(w, "User added to whitelist!")
    /\ Finish(w)
    /\ UNCHANGED <<use_whitelist, whitelist, db, last_id, next_step>>

handle_rm_whitelist(w) ==
    /\ Running(w, "handle_rm_whitelist", "run")
    /\ LET message == tasks[w].m
           name == extract_arguments(message.text)
       IN  IF ~is_owner(message.chat)
           THEN Reply(w, Denied) /\ Finish(w)
           \* rm_whitelist: if name not in self.whitelist.keys(): return False
           ELSE IF name \notin DOMAIN whitelist
           THEN Reply(w, "Failed to remove user from whitelist") /\ Finish(w)
           ELSE out' = <<>> /\ Goto(w, "del")
    /\ UNCHANGED <<use_whitelist, whitelist, conf_file, db, last_id, next_step>>

\* mutant: every entry of the named user's id is deleted
rm_whitelist_del_by_id(w) ==
    /\ Running(w, "handle_rm_whitelist", "del")
    /\ LET name == extract_arguments(tasks[w].m.text)
       IN  IF name \in DOMAIN whitelist
           THEN /\ whitelist' = [k \in {x \in DOMAIN whitelist :
                                          whitelist[x] # whitelist[name]}
                                   |-> whitelist[k]]
                /\ Goto(w, "dump")
           ELSE whitelist' = whitelist /\ Finish(w)
    /\ out' = <<>>
    /\ UNCHANGED <<use_whitelist, conf_file, db, last_id, next_step>>

\* rm_whitelist: del self.whitelist[name]; a key that another invocation
\* deleted meanwhile raises KeyError and the handler dies without a reply
rm_whitelist_del(w) ==
    /\ Running(w, "handle_rm_whitelist", "del")
    /\ LET name == extract_arguments(tasks[w].m.text)
       IN  IF name \in DOMAIN whitelist
           THEN whitelist' = DictDel(whitelist, name) /\ Goto(w, "dump")
           ELSE whitelist' = whitelist /\ Finish(w)
    /\ out' = <<>>
    /\ UNCHANGED <<use_whitelist, conf_file, db, last_id, next_step>>

\* rm_whitelist: json.dump(self._conf, f); return True
rm_whitelist_dump(w) ==
    /\ Running(w, "handle_rm_whitelist", "dump")
    /\ conf_file' = whitelist
    /\ Reply(w, "User removed from whitelist!")
    /\ Finish(w)
    /\ UNCHANGED <<use_whitelist, whitelist, db, last_id, next_step>>

handle_show_whitelist(w) ==
    /\ Running(w, "handle_show_whitelist", "run")
    /\ IF ~is_owner(tasks[w].m.chat)
       THEN Reply(w, Denied)
       ELSE out' = <<reply_to(tasks[w].m, "Whitelisted users:", <<whitelist>>)>>
    /\ Finish(w)
    /\ UNCHANGED <<use_whitelist, whitelist, conf_file, db, last_id, next_step>>

\* one InlineQueryResultCachedPhoto per WAT: <<str(index), smallest file>>
InlineResponses(wats) == [i \in DOMAIN wats |-> <<i - 1, wats[i].file_ids[1]>>]

\* mutant: a query that matches nothing falls back to all WATs, as /wat does
handle_inline_fallback(w) ==
    /\ Running(w, "handle_inline", "run")
    /\ LET inline_query == tasks[w].m
           expression == Strip(Lower(inline_query.text))
       IN  IF ~is_allowed(inline_query.from_user)
           THEN out' = <<>>
           ELSE IF expression = <<>> \/ get_wats_by_expression(expression) = <<>>
           THEN out' = <<answer_inline_query(InlineResponses(get_all_wats))>>
           ELSE out' = <<answer_inline_query(
                            InlineResponses(get_wats_by_expression(expression)))>>
    /\ Finish(w)
    /\ UNCHANGED <<use_whitelist, whitelist, conf_file, db, last_id, next_step>>

handle_inline(w) ==
    /\ Running(w, "handle_inline", "run")
    /\ LET inline_query == tasks[w].m
           expression == Strip(Lower(inline_query.text))
       IN  IF ~is_allowed(inline_query.from_user)
           THEN out' = <<>>
           ELSE IF expression = <<>>
           THEN out' = <<answer_inline_query(InlineResponses(get_all_wats))>>
           ELSE out' = <<answer_inline_query(
                            InlineResponses(get_wats_by_expression(expression)))>>
    /\ Finish(w)
    /\ UNCHANGED <<use_whitelist, whitelist, conf_file, db, last_id, next_step>>

(***************************************************************************)
(* The bot: the WAT flows of the owner's chat                              *)
(***************************************************************************)
FlowMessages ==
    Texts(owner, { Sp(c_add, w_a), c_remove, c_setexpressions, Sp(c_wat, <<"X">>),
                   w_cancel, w_a, <<"X",","," ","y">> })
      \cup { PhotoMessage(owner, <<"s1", "b1">>), StickerMessage(owner) }
      \cup Texts(2, { Sp(c_add, w_a), c_remove })

Init == InitWith(TRUE, EmptyDict, <<>>)

Next ==
    \/ \E m \in FlowMessages : DispatchNextStep(m)
    \/ \E m \in FlowMessages : DispatchCommand(m)
    \/ \E m \in FlowMessages : DispatchDropped(m)
    \/ \E w \in Workers :
        \/ register_next_step_handler(w)
        \/ handle_add(w)
        \/ process_add_image(w)
        \/ handle_remove(w)
        \/ process_remove_wat(w)
        \/ process_remove_wat_remove(w)
        \/ handle_wat(w)
        \/ handle_wat_all(w)
        \/ handle_set_expressions(w)
        \/ process_get_expressions(w)
        \/ process_set_expressions(w)

Spec == Init /\ [][Next]_vars


(***************************************************************************)
(* The bot: the owner-restricted commands, from the owner and from others  *)
(***************************************************************************)
OwnerCommandTexts ==
    { Sp(c_add, w_a), c_remove, c_setexpressions,
      Sp(c_addwhitelist, Sp(w_u, <<"2">>)), Sp(c_rmwhitelist, w_u), c_whitelist }

GateMessages ==
    Texts(owner, OwnerCommandTexts) \cup Texts(2, OwnerCommandTexts)
      \cup {GroupTextMessage(owner, t) : t \in OwnerCommandTexts}

\* a WAT as the add-flow and the set-expressions flow leave it in the table
StoredWat(id, name, file_ids, expressions) ==
    [doc_id |-> id, name |-> name, file_ids |-> file_ids, expressions |-> expressions]

GateInit ==
    \E docs \in { <<>>, <<StoredWat(1, w_a, <<"s1", "b1">>, <<>>)>> } :
        InitWith(TRUE, EmptyDict, docs)

GateNext ==
    \/ \E m \in GateMessages : DispatchNextStep(m)
    \/ \E m \in GateMessages : DispatchCommand(m)
    \/ \E w \in Workers :
        \/ register_next_step_handler(w)
        \/ handle_add(w)
        \/ process_add_image(w)
        \/ handle_remove(w)
        \/ process_remove_wat(w)
        \/ handle_set_expressions(w)
        \/ process_get_expressions(w)
        \/ handle_add_whitelist(w)
        \/ add_whitelist_set(w)
        \/ add_whitelist_dump(w)
        \/ handle_rm_whitelist(w)
        \/ rm_whitelist_del(w)
        \/ rm_whitelist_dump(w)
        \/ handle_show_whitelist(w)

GateSpec == GateInit /\ [][GateNext]_vars

(***************************************************************************)
(* The bot: the whitelist commands, /wat and the inline queries            *)
(***************************************************************************)
AccessMessages ==
    Texts(owner, { Sp(c_addwhitelist, Sp(w_u, <<"2">>)),
                   Sp(c_addwhitelist, Sp(w_u, <<"3">>)),
                   Sp(c_addwhitelist, Sp(w_v, <<"2">>)),
                   Sp(c_rmwhitelist, w_u), Sp(c_rmwhitelist, w_v),
                   Sp(c_wat, <<"X">>) })
      \cup Texts(2, { c_wat, Sp(c_wat, <<"X">>) })
      \cup { GroupTextMessage(3, Sp(c_wat, <<"X">>)) }

AccessQueries == { InlineQuery(u, q) : u \in {2, 3}, q \in {<<>>, <<" ", "X", " ">>} }

WatX == StoredWat(1, w_a, <<"s1", "b1">>, << <<"x">> >>)
WatY == StoredWat(2, <<"b">>, <<"s2", "b2">>, << <<"y">>, <<"z">> >>)

AccessInit ==
    \E uw \in BOOLEAN, docs \in { <<>>, <<WatY>>, <<WatX, WatY>> } :
        InitWith(uw, EmptyDict, docs)

AccessNext ==
    \/ \E m \in AccessMessages : DispatchCommand(m)
    \/ \E q \in AccessQueries : DispatchInline(q)
    \/ \E w \in Workers :
        \/ handle_wat(w)
        \/ handle_wat_all(w)
        \/ handle_inline(w)
        \/ handle_add_whitelist(w)
        \/ add_whitelist_set(w)
        \/ add_whitelist_dump(w)
        \/ handle_rm_whitelist(w)
        \/ rm_whitelist_del(w)
        \/ rm_whitelist_dump(w)

AccessSpec == AccessInit /\ [][AccessNext]_vars


(***************************************************************************)
(* The bot: owner commands with well-formed and malformed arguments        *)
(***************************************************************************)
ArgsMessages ==
    Texts(owner, { c_add, c_add \o <<" ">>,
                   c_addwhitelist, Sp(c_addwhitelist, w_u),
                   Sp(c_addwhitelist, Sp(w_u, <<"x">>)),
                   Sp(c_addwhitelist, Sp(w_u, Sp(<<"2">>, <<"3">>))),
                   Sp(c_addwhitelist, Sp(w_u, <<"2">>)),
                   c_rmwhitelist, Sp(c_rmwhitelist, w_u) })

ArgsInit ==
    \E docs \in { <<>>, <<WatX>> } : InitWith(TRUE, EmptyDict, docs)

ArgsNext ==
    \/ \E m \in ArgsMessages : DispatchCommand(m)
    \/ \E w \in Workers :
        \/ handle_add(w)
        \/ handle_add_whitelist(w)
        \/ add_whitelist_set(w)
        \/ add_whitelist_dump(w)
        \/ handle_rm_whitelist(w)
        \/ rm_whitelist_del(w)
        \/ rm_whitelist_dump(w)

ArgsSpec == ArgsInit /\ [][ArgsNext]_vars


(***************************************************************************)
(* The bot: every command and the inline query in the owner's chat         *)
(***************************************************************************)
FrameMessages ==
    Texts(owner, { Sp(c_add, w_a), c_remove, c_setexpressions,
                   Sp(c_addwhitelist, Sp(w_u, <<"2">>)), Sp(c_rmwhitelist, w_u),
                   w_cancel, w_a })
      \cup { PhotoMessage(owner, <<"s1", "b1">>) }
      \cup Texts(2, { Sp(c_wat, <<"A">>), c_me, c_start, c_help, c_whitelist })

FrameQueries == { InlineQuery(2, <<"a">>) }

FrameInit == InitWith(TRUE, EmptyDict, <<>>)

FrameNext ==
    \/ \E m \in FrameMessages : DispatchNextStep(m)
    \/ \E m \in FrameMessages : DispatchCommand(m)
    \/ \E m \in FrameMessages : DispatchDropped(m)
    \/ \E q \in FrameQueries : DispatchInline(q)
    \/ \E w \in Workers :
        \/ register_next_step_handler(w)
        \/ handle_start(w)
        \/ me(w)
        \/ handle_add(w)
        \/ process_add_image(w)
        \/ handle_remove(w)
        \/ process_remove_wat(w)
        \/ process_remove_wat_remove(w)
        \/ handle_wat(w)
        \/ handle_wat_all(w)
        \/ handle_set_expressions(w)
        \/ process_get_expressions(w)
        \/ process_set_expressions(w)
        \/ handle_add_whitelist(w)
        \/ add_whitelist_set(w)
        \/ add_whitelist_dump(w)
        \/ handle_rm_whitelist(w)
        \/ rm_whitelist_del(w)
        \/ rm_whitelist_dump(w)
        \/ handle_show_whitelist(w)
        \/ handle_inline(w)

FrameSpec == FrameInit /\ [][FrameNext]_vars


(***************************************************************************)
(* The bot: the mutating commands, from the owner and from other chats     *)
(***************************************************************************)
MutatingTexts ==
    { Sp(c_add, w_a), c_remove, c_setexpressions, w_a,
      Sp(c_addwhitelist, Sp(w_u, <<"2">>)) }

OwnerMessages ==
    Texts(owner, MutatingTexts) \cup Texts(2, MutatingTexts)
      \cup { PhotoMessage(owner, <<"s1", "b1">>), PhotoMessage(2, <<"s2", "b2">>),
             GroupTextMessage(owner, c_remove) }

OwnerInit == InitWith(TRUE, EmptyDict, <<>>)

OwnerNext ==
    \/ \E m \in OwnerMessages : DispatchNextStep(m)
    \/ \E m \in OwnerMessages : DispatchCommand(m)
    \/ \E m \in OwnerMessages : DispatchDropped(m)
    \/ \E w \in Workers :
        \/ register_next_step_handler(w)
        \/ handle_add(w)
        \/ process_add_image(w)
        \/ handle_remove(w)
        \/ process_remove_wat(w)
        \/ process_remove_wat_remove(w)
        \/ handle_set_expressions(w)
        \/ process_get_expressions(w)
        \/ process_set_expressions(w)
        \/ handle_add_whitelist(w)
        \/ add_whitelist_set(w)
        \/ add_whitelist_dump(w)

OwnerSpec == OwnerInit /\ [][OwnerNext]_vars


(***************************************************************************)
(* The bot: adding and removing WATs, one of them named '/cancel'          *)
(***************************************************************************)
RemoveMessages ==
    Texts(owner, { Sp(c_add, w_a), Sp(c_add, w_cancel), c_remove, w_a, w_cancel })
      \cup { PhotoMessage(owner, <<"s1", "b1">>) }

RemoveInit == InitWith(TRUE, EmptyDict, <<>>)

RemoveNext ==
    \/ \E m \in RemoveMessages : DispatchNextStep(m)
    \/ \E m \in RemoveMessages : DispatchCommand(m)
    \/ \E m \in RemoveMessages : DispatchDropped(m)
    \/ \E w \in Workers :
        \/ register_next_step_handler(w)
        \/ handle_add(w)
        \/ process_add_image(w)
        \/ handle_remove(w)
        \/ process_remove_wat(w)
        \/ process_remove_wat_remove(w)

RemoveSpec == RemoveInit /\ [][RemoveNext]_vars


(***************************************************************************)
(* Properties                                                              *)
(***************************************************************************)
\* worker w executed a step of the handler invocation it runs
Stepped(w) == tasks[w] # Idle /\ tasks'[w] # tasks[w]

\* w executed the first step of handler h
Ran(w, h) == Stepped(w) /\ tasks[w].h = h /\ tasks[w].pc = "run"

OwnerRestricted ==
    { "handle_add", "handle_remove", "handle_set_expressions",
      "handle_add_whitelist", "handle_rm_whitelist", "handle_show_whitelist" }

\* C1: an owner-restricted command handled as a top-level command in a chat
\* whose id is not the owner id has one effect, the permission-denied reply:
\* the invocation ends there, the table and the whitelist (in memory and in
\* the configuration file) are unchanged and no next step is registered or
\* left to register, whatever the table holds.
C1_OwnerGate ==
    [][\A w \in Workers :
          (\E h \in OwnerRestricted : Ran(w, h)) /\ tasks[w].m.chat # owner
          => /\ out' = <<reply_to(tasks[w].m, Denied, <<>>)>>
             /\ tasks'[w] = Idle
             /\ UNCHANGED <<db, last_id, whitelist, conf_file, next_step>>]_vars

\* the owner, writing in a group chat, was denied /add a although a exists
C1_Witness ==
    /\ out = <<reply_to(GroupTextMessage(owner, Sp(c_add, w_a)), Denied, <<>>)>>
    /\ wat_exists(w_a)
    /\ \E n \in DOMAIN whitelist : whitelist[n] = 2


ResumeFunctions ==
    { "process_add_image", "process_remove_wat", "process_get_expressions",
      "process_set_expressions" }

IsCancel(m) == m.content_type = "text" /\ m.text = w_cancel

\* the polling thread handed a message to a registered next step on worker w
Resumed(w) == tasks[w] = Idle /\ tasks'[w] # Idle /\ tasks'[w].h \in ResumeFunctions

\* a resumed next step is no longer registered: the chat is idle unless the
\* resume function, or another invocation, registers one again
Consumed(w) == Resumed(w) => next_step'[tasks'[w].m.chat] = NoStep

\* C2: in each of the four continuation steps a text message '/cancel' makes
\* the resume function send the cancellation acknowledgement and end without
\* registering a next step (the registration was consumed when the message
\* was dispatched, so the chat is idle), and the table is unchanged.
C2_Cancel ==
    [][\A w \in Workers :
          /\ Consumed(w)
          /\ (\E h \in ResumeFunctions : Ran(w, h)) /\ IsCancel(tasks[w].m)
             => /\ out' = <<send_message(tasks[w].m.chat, Cancelled, <<>>)>>
                /\ tasks'[w] = Idle
                /\ UNCHANGED <<db, last_id, next_step>>]_vars

\* a flow was cancelled with a WAT in the table, and the owner's chat is idle
C2_Witness ==
    /\ out = <<send_message(owner, Cancelled, <<>>)>>
    /\ next_step[owner] = NoStep
    /\ \A w \in Workers : tasks[w] = Idle
    /\ db # <<>>

\* C3: the add-flow.  /add <name> from the owner with a non-empty name that
\* is not in the table prompts for the image and registers process_add_image
\* with that name; a message that is neither a photo nor '/cancel' prompts
\* again, leaves the table unchanged and registers the same step with the
\* same name; a photo appends exactly one document with that name, the
\* photo's file ids in their order and no expressions, and registers nothing.
C3_AddFlow ==
    [][\A w \in Workers :
          LET m == tasks[w].m
              name == extract_arguments(m.text)
          IN
          /\ Consumed(w)
          /\ Ran(w, "handle_add") /\ m.chat = owner
                /\ name # <<>> /\ ~wat_exists(name)
             => /\ out' = <<send_message(owner, SendImage, <<>>)>>
                /\ tasks'[w] = [tasks[w] EXCEPT !.pc = "register",
                                   !.reg = Step("process_add_image", name)]
                /\ UNCHANGED <<db, last_id, next_step>>
          /\ Stepped(w) /\ tasks[w].pc = "register"
             => /\ next_step' = [next_step EXCEPT ![m.chat] = tasks[w].reg]
                /\ tasks'[w] = Idle
                /\ UNCHANGED <<db, last_id>>
          /\ Ran(w, "process_add_image") /\ m.content_type # "photo" /\ ~IsCancel(m)
             => /\ out' = <<send_message(m.chat, SendImage, <<>>)>>
                /\ tasks'[w] = [tasks[w] EXCEPT !.pc = "register",
                                   !.reg = Step("process_add_image", tasks[w].name)]
                /\ UNCHANGED <<db, last_id, next_step>>
          /\ Ran(w, "process_add_image") /\ m.content_type = "photo"
             => /\ Len(db') = Len(db) + 1
                /\ SubSeq(db', 1, Len(db)) = db
                /\ db'[Len(db')].name = tasks[w].name
                /\ db'[Len(db')].file_ids = m.photo
                /\ db'[Len(db')].expressions = <<>>
                /\ tasks'[w] = Idle
                /\ UNCHANGED next_step]_vars

\* the flow has completed: one document, and the owner's chat is idle
C3_Witness ==
    /\ out = <<send_message(owner, "Added correctly!", <<>>)>>
    /\ db = <<StoredWat(1, w_a, <<"s1", "b1">>, <<>>)>>
    /\ next_step[owner] = NoStep

\* C4: no two documents of the table have the same name.
C4_UniqueNames ==
    \A i, j \in DOMAIN db : db[i].name = db[j].name => i = j

\* C5: a message of a chat with a registered next step is given to that step
\* and to no command handler, whatever its text; a command such as /wat X or
\* /remove that reaches process_add_image this way sends no photo and starts
\* no flow: the image is asked for again and the same step is registered.
C5_NextStepFirst ==
    [][\A w \in Workers :
          /\ tasks[w] = Idle /\ tasks'[w] # Idle
                /\ tasks'[w].m.kind = "message"
                /\ next_step[tasks'[w].m.chat] # NoStep
             => /\ tasks'[w].h = next_step[tasks'[w].m.chat].fn
                /\ tasks'[w].name = next_step[tasks'[w].m.chat].name
                /\ tasks'[w].pc = "run"
                /\ next_step'[tasks'[w].m.chat] = NoStep
          /\ Ran(w, "process_add_image") /\ CommandHandler(tasks[w].m) # "none"
             => /\ out' = <<send_message(tasks[w].m.chat, SendImage, <<>>)>>
                /\ tasks'[w] = [tasks[w] EXCEPT !.pc = "register",
                                   !.reg = Step("process_add_image", tasks[w].name)]
                /\ UNCHANGED <<db, last_id, next_step>>]_vars

\* /wat X, sent while the add-flow awaited its image, was answered with the
\* prompt for the image
C5_Witness ==
    \E w \in Workers :
        /\ tasks[w].h = "process_add_image"
        /\ tasks[w].m = TextMessage(owner, Sp(c_wat, <<"X">>))
        /\ tasks[w].pc = "register"
        /\ tasks[w].reg = Step("process_add_image", w_a)
        /\ out = <<send_message(owner, SendImage, <<>>)>>


\* w executed step pc of handler h
At(w, h, pc) == Stepped(w) /\ tasks[w].h = h /\ tasks[w].pc = pc

\* C6: add_whitelist(name, id).  A name that is already a key: the result is
\* false (the handler replies the failure) and neither the dict nor the
\* configuration file changes.  Otherwise name -> id is inserted with every
\* other entry kept, the whole whitelist is written to the file and the
\* result is true.  So a second call with a name the first one inserted
\* is refused and the first id stays.
C6_AddWhitelist ==
    [][\A w \in Workers :
          LET m == tasks[w].m
              args == WhitelistArgs(m.text)
              valid == m.chat = owner /\ Len(args) = 2 /\ IsInt(args[2])
          IN
          /\ Ran(w, "handle_add_whitelist") /\ valid /\ args[1] \in DOMAIN whitelist
             => /\ out' = <<reply_to(m, "Failed to add user to whitelist", <<>>)>>
                /\ tasks'[w] = Idle
                /\ UNCHANGED <<whitelist, conf_file>>
          /\ Ran(w, "handle_add_whitelist") /\ valid /\ args[1] \notin DOMAIN whitelist
             => /\ tasks'[w] = [tasks[w] EXCEPT !.pc = "set"]
                /\ UNCHANGED <<whitelist, conf_file>>
          /\ At(w, "handle_add_whitelist", "set")
             => /\ DOMAIN whitelist' = DOMAIN whitelist \cup {args[1]}
                /\ whitelist'[args[1]] = ParseInt(args[2])
                /\ \A k \in DOMAIN whitelist \ {args[1]} : whitelist'[k] = whitelist[k]
                /\ tasks'[w] = [tasks[w] EXCEPT !.pc = "dump"]
                /\ UNCHANGED conf_file
          /\ At(w, "handle_add_whitelist", "dump")
             => /\ conf_file' = whitelist
                /\ out' = <<reply_to(m, "User added to whitelist!", <<>>)>>
                /\ tasks'[w] = Idle
                /\ UNCHANGED whitelist]_vars

\* u was added with id 2 and a second /addwhitelist u 3 was refused
C6_Witness ==
    /\ out = <<reply_to(TextMessage(owner, Sp(c_addwhitelist, Sp(w_u, <<"3">>))),
                        "Failed to add user to whitelist", <<>>)>>
    /\ w_u \in DOMAIN whitelist /\ whitelist[w_u] = 2
    /\ conf_file = whitelist

\* C7: rm_whitelist(name).  A name that is not a key: the result is false and
\* neither the dict nor the configuration file changes.  Otherwise exactly
\* that entry is deleted, every other entry is kept, the whole whitelist is
\* written to the file and the result is true.
C7_RmWhitelist ==
    [][\A w \in Workers :
          LET m == tasks[w].m
              name == extract_arguments(m.text)
          IN
          /\ Ran(w, "handle_rm_whitelist") /\ m.chat = owner
                /\ name \notin DOMAIN whitelist
             => /\ out' = <<reply_to(m, "Failed to remove user from whitelist", <<>>)>>
                /\ tasks'[w] = Idle
                /\ UNCHANGED <<whitelist, conf_file>>
          /\ Ran(w, "handle_rm_whitelist") /\ m.chat = owner
                /\ name \in DOMAIN whitelist
             => /\ tasks'[w] = [tasks[w] EXCEPT !.pc = "del"]
                /\ UNCHANGED <<whitelist, conf_file>>
          /\ At(w, "handle_rm_whitelist", "del") /\ name \in DOMAIN whitelist
             => /\ DOMAIN whitelist' = DOMAIN whitelist \ {name}
                /\ \A k \in DOMAIN whitelist' : whitelist'[k] = whitelist[k]
                /\ tasks'[w] = [tasks[w] EXCEPT !.pc = "dump"]
                /\ UNCHANGED conf_file
          /\ At(w, "handle_rm_whitelist", "dump")
             => /\ conf_file' = whitelist
                /\ out' = <<reply_to(m, "User removed from whitelist!", <<>>)>>
                /\ tasks'[w] = Idle
                /\ UNCHANGED whitelist]_vars

\* u was removed while v, with the same user id, stayed
C7_Witness ==
    /\ out = <<reply_to(TextMessage(owner, Sp(c_rmwhitelist, w_u)),
                        "User removed from whitelist!", <<>>)>>
    /\ DOMAIN whitelist = {w_v} /\ whitelist[w_v] = 2
    /\ conf_file = whitelist

\* the user ids is_allowed is asked about, and one that no message carries
UserIds == Users \cup {GroupChat, 4}

\* the claim's condition, stated on the configuration
Permitted(user_id) ==
    \/ ~use_whitelist
    \/ user_id = owner
    \/ \E n \in DOMAIN whitelist : whitelist[n] = user_id

\* C8: is_allowed(user_id) is true exactly when the whitelist is disabled, or
\* user_id is the owner id, or user_id is the value of some whitelist entry.
C8_IsAllowed == \A u \in UserIds : is_allowed(u) <=> Permitted(u)

\* whitelist enabled: 2 is allowed through an entry, 3 is not
C8_Witness ==
    /\ use_whitelist
    /\ whitelist # EmptyDict
    /\ is_allowed(2) /\ ~is_allowed(3) /\ is_allowed(owner)

\* C9: a /wat command or an inline query whose sender is not allowed when it
\* is handled gets no photo, no inline answer and no reply at all, and
\* changes no state: the invocation ends.
C9_NotAllowedSilent ==
    [][\A w \in Workers :
          (Ran(w, "handle_wat") \/ Ran(w, "handle_inline"))
              /\ ~Permitted(tasks[w].m.from_user)
          => /\ out' = <<>>
             /\ tasks'[w] = Idle
             /\ UNCHANGED <<db, last_id, whitelist, conf_file, next_step,
                            use_whitelist>>]_vars

\* /wat X from user 3, who is not allowed, is about to be handled with a
\* matching WAT in the table, and an inline query of user 3 likewise
C9_Witness ==
    /\ use_whitelist /\ ~Permitted(3) /\ Permitted(2)
    /\ db = <<WatX, WatY>>
    /\ \E w \in Workers : Running(w, "handle_wat", "run") /\ tasks[w].m.from_user = 3
    /\ \E w \in Workers : Running(w, "handle_inline", "run") /\ tasks[w].m.from_user = 3

Biggest(d) == d.file_ids[Len(d.file_ids)]

\* C10: /wat <expression> from an allowed user.  When some stored WAT has the
\* lowercased expression among its expressions, the photo is the last file
\* id of one of those WATs (for /wat X: of a WAT with the expression x).
\* When none has it, or the expression is empty, the photo is the last file
\* id of some stored WAT, and with an empty table the answer is a text reply
\* and no photo.
C10_Wat ==
    [][\A w \in Workers :
          LET m == tasks[w].m
              e == Lower(extract_arguments(m.text))
              matching == {i \in DOMAIN db : MatchesExpression(db[i], e)}
              withX == {i \in DOMAIN db : \E k \in DOMAIN db[i].expressions :
                                             db[i].expressions[k] = <<"x">>}
              fromAll ==
                  /\ IF db = <<>>
                     THEN out' = <<reply_to(m, "Sorry, I have no WATs that match that",
                                            <<>>)>>
                     ELSE \E i \in DOMAIN db :
                             out' = <<send_photo(m.chat, Biggest(db[i]))>>
                  /\ tasks'[w] = Idle
          IN
          /\ Ran(w, "handle_wat") /\ Permitted(m.from_user)
                /\ e # <<>> /\ matching # {}
             => /\ \E i \in matching : out' = <<send_photo(m.chat, Biggest(db[i]))>>
                /\ tasks'[w] = Idle
          /\ Ran(w, "handle_wat") /\ Permitted(m.from_user)
                /\ m.text = Sp(c_wat, <<"X">>) /\ withX # {}
             => \E i \in withX : out' = <<send_photo(m.chat, Biggest(db[i]))>>
          /\ Ran(w, "handle_wat") /\ Permitted(m.from_user)
                /\ e # <<>> /\ matching = {}
             => out' = <<>> /\ tasks'[w] = [tasks[w] EXCEPT !.pc = "all"]
          /\ Ran(w, "handle_wat") /\ Permitted(m.from_user) /\ e = <<>>
             => fromAll
          /\ At(w, "handle_wat", "all") => fromAll
          /\ Stepped(w) /\ tasks[w].h = "handle_wat" => UNCHANGED db]_vars

\* /wat X of user 2 was answered with the biggest file of the WAT that has
\* the expression x, with another WAT in the table
C10_Witness ==
    /\ db = <<WatX, WatY>>
    /\ use_whitelist
    /\ out = <<send_photo(2, "b1")>>

\* the results of an inline answer, one per chosen document, in table order
ResultsOf(chosen, responses) ==
    /\ Len(responses) = Cardinality(chosen)
    /\ \E f \in [DOMAIN responses -> chosen] :
          /\ \A j, k \in DOMAIN responses : j < k => f[j] < f[k]
          /\ \A k \in DOMAIN responses : responses[k][2] = db[f[k]].file_ids[1]

\* C11: an inline query from an allowed user.  With a query text that is
\* empty after trimming, the answer has one result per stored WAT, each with
\* the first (smallest) file id of that WAT.  With a non-empty text it has
\* one result for exactly each WAT whose expressions contain the lowercased,
\* trimmed text, and it is the empty list when no WAT matches: there is no
\* fallback to all WATs.
C11_Inline ==
    [][\A w \in Workers :
          LET q == tasks[w].m
              e == Strip(Lower(q.text))
              matching == {i \in DOMAIN db : \E k \in DOMAIN db[i].expressions :
                                                db[i].expressions[k] = e}
          IN  Ran(w, "handle_inline") /\ Permitted(q.from_user)
              => /\ Len(out') = 1
                 /\ out'[1].api = "answer_inline_query"
                 /\ ResultsOf(IF e = <<>> THEN DOMAIN db ELSE matching, out'[1].arg)
                 /\ e # <<>> /\ matching = {} => out'[1].arg = <<>>
                 /\ tasks'[w] = Idle
                 /\ UNCHANGED db]_vars

\* a query ' X ' was answered with the one WAT that has the expression x,
\* by its smallest file, with another WAT in the table
C11_Witness ==
    /\ db = <<WatX, WatY>>
    /\ out = <<answer_inline_query(<< <<0, "s1">> >>)>>
    /\ tasks = [w \in Workers |-> Idle]


\* C12: an owner command with malformed arguments ('/add' with an empty
\* name, '/addwhitelist' with other than two space-separated arguments or
\* with a second argument that is not an integer, '/rmwhitelist' with an
\* empty name) is answered with the usage string of that command, changes
\* neither the table nor the whitelist, and registers no next step.
C12_Usage ==
    [][\A w \in Workers :
          LET m == tasks[w].m
              arguments == extract_arguments(m.text)
              args == Split(arguments, " ")
              usage(text) ==
                  /\ out' = <<reply_to(m, text, <<>>)>>
                  /\ tasks'[w] = Idle
                  /\ UNCHANGED <<db, last_id, whitelist, conf_file, next_step>>
          IN  m.chat = owner =>
              /\ Ran(w, "handle_add") /\ arguments = <<>>
                 => usage("/add <name>")
              /\ Ran(w, "handle_add_whitelist") /\ (Len(args) # 2 \/ ~IsInt(args[2]))
                 => usage("/addwhitelist <name> <id>")
              /\ Ran(w, "handle_rm_whitelist") /\ arguments = <<>>
                 => usage("/rmwhitelist <name>")]_vars


\* C13: each chat has at most one pending next step.  Registering a next
\* step for a chat that has one replaces it; a dispatched message resumes at
\* most one resume function, the one that was pending, and consumes it; and
\* the invocation that changes the table ends with that change, so one
\* message performs at most one mutation of the table.  This also holds when
\* two commands of one chat were dispatched together and both register.
C13_OnePending ==
    [][/\ \A w \in Workers :
            Stepped(w) /\ tasks[w].pc = "register"
            => next_step' = [next_step EXCEPT ![tasks[w].m.chat] = tasks[w].reg]
       /\ Cardinality({w \in Workers : Resumed(w)}) <= 1
       /\ \A w \in Workers :
            Resumed(w)
            => /\ next_step[tasks'[w].m.chat] = Step(tasks'[w].h, tasks'[w].name)
               /\ next_step'[tasks'[w].m.chat] = NoStep
       /\ db' # db
            => \E w \in Workers :
                  /\ Stepped(w) /\ tasks'[w] = Idle
                  /\ \A v \in Workers \ {w} : tasks'[v] = tasks[v]]_vars

\* /remove and /add a were dispatched together: the step of /remove is
\* registered and the invocation of /add a is about to register its own
C13_Witness ==
    /\ next_step[owner] = Step("process_remove_wat", None)
    /\ \E w \in Workers :
          /\ tasks[w].pc = "register"
          /\ tasks[w].m.chat = owner
          /\ tasks[w].reg = Step("process_add_image", w_a)


\* the polling thread handed an update to worker w
Dispatched(w) == tasks[w] = Idle /\ tasks'[w] # Idle

\* the next steps of all chats but c are left as they are
OnlyChat(c) == \A b \in Chats \ {c} : next_step'[b] = next_step[b]

\* C14: handling an update of chat A never registers, replaces, resumes or
\* clears the next step of another chat B: a step of a handler invocation
\* and the dispatch of a message change at most the next step of the chat of
\* that message, and a resumed function is the one that was pending for the
\* chat of the message it is given.
C14_Isolation ==
    [][\A w \in Workers :
          /\ Stepped(w) => OnlyChat(tasks[w].m.chat)
          /\ Stepped(w) /\ tasks[w].pc = "register"
             => next_step'[tasks[w].m.chat] = tasks[w].reg
          /\ Dispatched(w) => OnlyChat(tasks'[w].m.chat)
          /\ Resumed(w)
             => next_step[tasks'[w].m.chat] = Step(tasks'[w].h, tasks'[w].name)]_vars

\* /add a of chat 2 was denied while the next step of the owner's chat stayed
C14_Witness ==
    /\ out = <<reply_to(TextMessage(2, Sp(c_add, w_a)), Denied, <<>>)>>
    /\ next_step[owner] = Step("process_add_image", w_a)
    /\ next_step[2] = NoStep


\* the invocations that passed the key check of add_whitelist or
\* rm_whitelist and have not yet returned
InWhitelistSection ==
    {w \in Workers : /\ tasks[w].h \in {"handle_add_whitelist", "handle_rm_whitelist"}
                     /\ tasks[w].pc \in {"set", "del", "dump"}}

WhitelistQuiescent ==
    \A w \in Workers : tasks[w].h \notin {"handle_add_whitelist", "handle_rm_whitelist"}

\* C15: whitelist durability under concurrency.  Whenever no add_whitelist
\* or rm_whitelist invocation is in progress the whitelist of the
\* configuration file equals the one in memory, and at most one invocation
\* is inside its mutate-and-persist section (from the key check it passed to
\* its return) at any time, so that concurrent invocations lose no update.
C15_WhitelistDurable ==
    /\ WhitelistQuiescent => conf_file = whitelist
    /\ Cardinality(InWhitelistSection) <= 1

\* the flow's final step: worker w runs process_set_expressions on a text
\* message other than '/cancel'
SetsExpressions(w) ==
    /\ Ran(w, "process_set_expressions")
    /\ tasks[w].m.content_type = "text" /\ ~IsCancel(tasks[w].m)

\* the table after the expressions of the documents named n were replaced
Replaced(n, parts) ==
    /\ Len(db') = Len(db)
    /\ \A i \in DOMAIN db :
          IF db[i].name = n
          THEN db'[i] = [db[i] EXCEPT !.expressions = parts]
          ELSE db'[i] = db[i]

\* C16: the set-expressions flow.  Selecting a name that is not in the table,
\* or sending a message that is not text, prompts again, registers the same
\* step and changes no document; selecting an existing name n registers the
\* final step for n.  A text t other than '/cancel' then makes the
\* expressions of n exactly the comma-separated parts of t, lowercased and
\* trimmed, with none of the previous ones kept (for 'X, y': x and y); no
\* other document changes, the chat is idle, and a search for any of the
\* parts returns n.
C16_SetExpressions ==
    [][\A w \in Workers :
          LET m == tasks[w].m
              n == tasks[w].name
              parts == ParseExpressions(m.text)
              again(fn, name) ==
                  /\ tasks'[w] = [tasks[w] EXCEPT !.pc = "register",
                                                  !.reg = Step(fn, name)]
                  /\ UNCHANGED <<db, next_step>>
          IN
          /\ Consumed(w)
          /\ Ran(w, "process_get_expressions") /\ m.content_type # "text"
             => again("process_get_expressions", None)
          /\ Ran(w, "process_get_expressions") /\ m.content_type = "text"
                /\ ~IsCancel(m) /\ ~wat_exists(m.text)
             => again("process_get_expressions", None)
          /\ Ran(w, "process_get_expressions") /\ m.content_type = "text"
                /\ ~IsCancel(m) /\ wat_exists(m.text)
             => again("process_set_expressions", m.text)
          /\ Ran(w, "process_set_expressions") /\ m.content_type # "text"
             => again("process_set_expressions", n)
          /\ SetsExpressions(w)
             => /\ Replaced(n, parts)
                /\ m.text = <<"X", ",", " ", "y">> => parts = << <<"x">>, <<"y">> >>
                /\ \E i \in DOMAIN db' : db'[i].name = n
                /\ \A k \in DOMAIN parts : \E i \in DOMAIN db' :
                      /\ db'[i].name = n
                      /\ \E j \in DOMAIN db'[i].expressions :
                            db'[i].expressions[j] = parts[k]
                /\ tasks'[w] = Idle
                /\ UNCHANGED next_step]_vars

\* the handlers of /wat, inline queries, /me, /start, /help and the
\* whitelist commands
ReadOnlyHandlers ==
    { "handle_wat", "handle_inline", "me", "handle_start",
      "handle_add_whitelist", "handle_rm_whitelist", "handle_show_whitelist" }

\* w executed a step that prompts (again) or a step that cancels a flow
PromptsOrCancels(w) ==
    /\ Stepped(w)
    /\ \/ tasks'[w].pc = "register"
       \/ tasks[w].pc = "register"
       \/ tasks[w].h \in ResumeFunctions /\ tasks[w].pc = "run" /\ IsCancel(tasks[w].m)

\* C17: the frame of the table.  A document, identified by its id, keeps its
\* name and its file ids from its creation to its deletion, an id is never
\* given to a second document, and the file ids are never empty.  The
\* expressions of a document change only in the final step of the
\* set-expressions flow for the name of that document.  The steps of /wat,
\* of an inline query, of /me, /start and /help and of the whitelist
\* commands, and every step that prompts again or cancels, leave the whole
\* table unchanged.
C17_StoreFrame ==
    [][/\ \A i \in DOMAIN db, j \in DOMAIN db' :
            db[i].doc_id = db'[j].doc_id
            => /\ db'[j].name = db[i].name
               /\ db'[j].file_ids = db[i].file_ids
               /\ db'[j].expressions # db[i].expressions
                  => \E w \in Workers : SetsExpressions(w) /\ tasks[w].name = db[i].name
       /\ \A j \in DOMAIN db' :
            /\ db'[j].file_ids # <<>>
            /\ (\A i \in DOMAIN db : db[i].doc_id # db'[j].doc_id)
               => db'[j].doc_id > last_id
       /\ \A w \in Workers :
            /\ Stepped(w) /\ tasks[w].h \in ReadOnlyHandlers => UNCHANGED db
            /\ PromptsOrCancels(w) => UNCHANGED db]_vars

\* the WAT a was created, removed and created again, and the second
\* document has got its expressions
C17_Witness ==
    /\ db = <<StoredWat(2, w_a, <<"s1", "b1">>, <<w_a>>)>>
    /\ out = <<send_message(owner, "Expressions updated", <<>>)>>

C19_Removable ==
    [][\A w \in Workers :
          LET m == tasks[w].m
          IN  /\ Ran(w, "process_remove_wat") /\ m.content_type = "text"
                    /\ wat_exists(m.text)
                 => /\ tasks'[w].pc = "remove"
                    /\ \E i \in DOMAIN db : /\ db[i].name = m.text
                                            /\ db[i].doc_id = tasks'[w].doc
                    /\ UNCHANGED <<db, next_step>>
              /\ At(w, "process_remove_wat", "remove") /\ HasDoc(tasks[w].doc)
                 => /\ \A i \in DOMAIN db :
                          db[i].doc_id = tasks[w].doc
                          <=> \A j \in DOMAIN db' : db'[j].doc_id # db[i].doc_id
                    /\ Len(db') = Len(db) - 1
                    /\ tasks'[w] = Idle
                    /\ UNCHANGED next_step]_vars

\* rm_whitelist, past its key check, deletes the entry of its name on worker w
Removes(w) ==
    /\ At(w, "handle_rm_whitelist", "del")
    /\ extract_arguments(tasks[w].m.text) \in DOMAIN whitelist

\* C20, as claimed: with the whitelist enabled, once rm_whitelist has
\* deleted an entry name -> u with u other than the owner id, is_allowed(u)
\* is false, whatever the whitelist holds.
C20_Revokes ==
    [][\A w \in Workers, u \in UserIds \ {owner} :
          /\ Removes(w) /\ use_whitelist
          /\ whitelist[extract_arguments(tasks[w].m.text)] = u
          => ~is_allowed(u)']_vars

\* C20, amended: with the whitelist enabled, once rm_whitelist has deleted
\* an entry name -> u with u other than the owner id, is_allowed(u) is false
\* exactly when no other name of the whitelist maps to u: a user id stored
\* under several names stays allowed until the last of them is removed.
\* The step that persists the removal and returns true changes nothing of it.
C20_RevokesLastEntry ==
    [][\A w \in Workers, u \in UserIds \ {owner} :
          LET name == extract_arguments(tasks[w].m.text)
          IN  /\ Removes(w) /\ use_whitelist /\ whitelist[name] = u
                 => (is_allowed(u)'
                       <=> \E k \in DOMAIN whitelist \ {name} : whitelist[k] = u)
              /\ At(w, "handle_rm_whitelist", "dump")
                 => /\ UNCHANGED <<whitelist, use_whitelist>>
                    /\ \A x \in UserIds : is_allowed(x)' <=> is_allowed(x)]_vars

\* u -> 2 was removed and user 2 is still allowed through v -> 2
C20_Witness ==
    /\ use_whitelist
    /\ out = <<reply_to(TextMessage(owner, Sp(c_rmwhitelist, w_u)),
                        "User removed from whitelist!", <<>>)>>
    /\ whitelist = DictSet(EmptyDict, w_v, 2)
    /\ is_allowed(2) /\ ~is_allowed(3)

=============================================================================
